---- MODULE Spec2Model ----
(***************************************************************************)
(* A model of the two scripts of the repository:                           *)
(*   - "Universal File Renamer/rename_files.py"  (rename_files)            *)
(*   - "Combine Files In One File/append_text.py" (combine_files)          *)
(* File names are sequences of one-character strings, so that the regular  *)
(* expression, pathlib's stem/suffix and the sort order are computed on    *)
(* the characters, as the code computes them.                              *)
(***************************************************************************)
EXTENDS Integers, Sequences, FiniteSets, TLC

(***************************************************************************)
(* Bounds of the model.                                                    *)
(***************************************************************************)
\* the folder given to rename_files holds at most this many entries
MaxEntries == 3
\* at most this many renames of one call raise an error
MaxRenameErrors == 1
\* the source directory of combine_files holds at most this many files
MaxSourceFiles == 3
\* at most this many reads or writes of one combine_files run raise an error
MaxFaults == 2

(***************************************************************************)
(* Characters and strings.                                                 *)
(***************************************************************************)
Digits == <<"0", "1", "2", "3", "4", "5", "6", "7", "8", "9">>

IsDigit(c) == \E k \in 1..Len(Digits) : Digits[k] = c

\* ord(c) for the characters the model uses
Ord(c) ==
  CASE c = "." -> 46
    [] IsDigit(c) -> 47 + (CHOOSE k \in 1..Len(Digits) : Digits[k] = c)
    [] c = "G" -> 71
    [] c = "L" -> 76
    [] c = "_" -> 95
    [] c = "a" -> 97
    [] c = "b" -> 98
    [] c = "g" -> 103
    [] c = "l" -> 108
    [] c = "o" -> 111
    [] c = "r" -> 114
    [] c = "t" -> 116
    [] c = "x" -> 120
    [] c = "z" -> 122

\* str.lower() of one character (re.IGNORECASE compares case-folded letters)
Lower(c) ==
  CASE c = "G" -> "g"
    [] c = "L" -> "l"
    [] OTHER -> c

\* str < str : comparison by code point, a proper prefix being smaller
StrLess(a, b) ==
  \E k \in 1..(Len(b)) :
     /\ \A j \in 1..(k - 1) : j <= Len(a) /\ a[j] = b[j]
     /\ k - 1 <= Len(a)
     /\ \/ k = Len(a) + 1
        \/ k <= Len(a) /\ Ord(a[k]) < Ord(b[k])

\* sorted(S) for a set of strings
RECURSIVE SortedNames(_)
SortedNames(S) ==
  IF S = {} THEN <<>>
  ELSE LET m == CHOOSE x \in S : \A y \in S : x = y \/ StrLess(x, y)
       IN  <<m>> \o SortedNames(S \ {m})

\* s.lstrip('.')
RECURSIVE LStripDots(_)
LStripDots(s) ==
  IF s # <<>> /\ s[1] = "." THEN LStripDots(Tail(s)) ELSE s

\* str(i) for i >= 0
RECURSIVE IntToStr(_)
IntToStr(i) ==
  IF i < 10 THEN <<Digits[i + 1]>>
  ELSE IntToStr(i \div 10) \o <<Digits[(i % 10) + 1]>>

AllDigits(s) == Len(s) >= 1 /\ \A k \in 1..Len(s) : IsDigit(s[k])

(***************************************************************************)
(* rename_files: the pattern  ^(.+)\.<old>(?:\.?(\d+))?$  with IGNORECASE  *)
(***************************************************************************)
\* the part after the extension: nothing, digits, or a dot and digits
NumberTail(rest) ==
  \/ rest = <<>>
  \/ AllDigits(rest)
  \/ Len(rest) >= 2 /\ rest[1] = "." /\ AllDigits(Tail(rest))

\* the pattern matches with group 1 being the first i characters of the name
MatchAt(name, old, i) ==
  /\ i >= 1
  /\ i + 1 + Len(old) <= Len(name)
  /\ name[i + 1] = "."
  /\ \A k \in 1..Len(old) : Lower(name[i + 1 + k]) = Lower(old[k])
  /\ NumberTail(SubSeq(name, i + 2 + Len(old), Len(name)))

PatternMatches(name, old) == \E i \in 1..Len(name) : MatchAt(name, old, i)

\* group 1: (.+) is greedy, the longest base for which the rest matches
BaseLen(name, old) ==
  CHOOSE i \in 1..Len(name) :
     /\ MatchAt(name, old, i)
     /\ \A j \in (i + 1)..Len(name) : ~MatchAt(name, old, j)

Group1(name, old) == SubSeq(name, 1, BaseLen(name, old))

\* group 2: the digits, <<>> when the optional group did not take part
Group2(name, old) ==
  LET rest == SubSeq(name, BaseLen(name, old) + 2 + Len(old), Len(name))
  IN  IF rest = <<>> THEN <<>>
      ELSE IF rest[1] = "." THEN Tail(rest) ELSE rest

NewNameNoNumber(base_name, number, new_ext) ==
  base_name \o <<".">> \o new_ext

\* lines 63-66
NewName(base_name, number, new_ext) ==
  IF number # <<>>
  THEN base_name \o <<".">> \o number \o <<".">> \o new_ext
  ELSE base_name \o <<".">> \o new_ext

(***************************************************************************)
(* pathlib: PurePath.suffix and PurePath.stem                              *)
(***************************************************************************)
\* name.rfind('.') as a 1-based position, 0 when there is no dot
RFindDot(name) ==
  IF \E k \in 1..Len(name) : name[k] = "."
  THEN CHOOSE k \in 1..Len(name) :
          name[k] = "." /\ \A j \in (k + 1)..Len(name) : name[j] # "."
  ELSE 0

HasSuffix(name) == RFindDot(name) > 1 /\ RFindDot(name) < Len(name)

Suffix(name) ==
  IF HasSuffix(name) THEN SubSeq(name, RFindDot(name), Len(name)) ELSE <<>>

Stem(name) ==
  IF HasSuffix(name) THEN SubSeq(name, 1, RFindDot(name) - 1) ELSE name

\* line 76
Candidate(stem, i, suffix) == stem \o <<"_">> \o IntToStr(i) \o suffix

\* lines 74-80: the while loop, from i
RECURSIVE FirstFree(_, _, _, _)
FirstFree(stem, suffix, i, existing) ==
  IF Candidate(stem, i, suffix) \notin existing
  THEN Candidate(stem, i, suffix)
  ELSE FirstFree(stem, suffix, i + 1, existing)

ResolveTargetNoCheck(new_name, existing) == new_name

ResolveTargetFromZero(new_name, existing) ==
  IF new_name \in existing
  THEN FirstFree(Stem(new_name), Suffix(new_name), 0, existing)
  ELSE new_name

\* lines 68-80: the target, given the names that exist in the folder now
ResolveTarget(new_name, existing) ==
  IF new_name \in existing
  THEN FirstFree(Stem(new_name), Suffix(new_name), 1, existing)
  ELSE new_name

(***************************************************************************)
(* rename_files: the folder and the inputs.                                *)
(***************************************************************************)
\* the (old_ext, new_ext) arguments tried: a leading dot to strip, the same
\* extension twice, a new extension that matches the old pattern itself
ExtArgs ==
  { [old |-> <<".", "l", "g">>, new |-> <<"t", "x">>],
    [old |-> <<"l", "g">>,      new |-> <<"l", "g">>],
    [old |-> <<"l", "g">>,      new |-> <<"l", "g", "2">>] }

\* names a regular file of the folder may have
FilePool ==
  { <<"r", ".", "l", "g">>,
    <<"r", ".", "l", "g", "2">>,
    <<"r", ".", "l", "g", ".", "2">>,
    <<"r", ".", "L", "G">>,
    <<"r", ".", "l", "g", ".", "l", "g">>,
    <<"r", ".", "l", "g", "x">>,
    <<"r", "l", "g">>,
    <<".", "l", "g">>,
    <<"r", ".", "t", "x">>,
    <<"r", ".", "2", ".", "t", "x">>,
    <<"r", "_", "1", ".", "t", "x">>,
    <<"r", "_", "1", ".", "l", "g">>,
    <<"r", ".", "2", ".", "l", "g", "2">> }

\* names a sub-directory of the folder may have
DirPool ==
  { <<"r", ".", "t", "x">>,
    <<"r", ".", "l", "g", ".", "2">> }

\* the state of combine_files
VARIABLES
  tree,            \* paths of the regular files below the source directory
  source_ok,       \* source_path.exists() and source_path.is_dir()
  opts,            \* [pattern, sort_by_date, recursive]
  cpc,             \* where combine_files is
  cfiles,          \* the list files, after the filter and the sort
  ci,              \* position of the for loop in cfiles
  content,         \* the text read from the current file
  files_processed, \* line 64
  total_lines,     \* line 65
  outfile,         \* the chunks written to the output file, in order
  opened,          \* the output file was opened for writing
  console,         \* the diagnostic printed for each file and failure
  result           \* the tuple returned

cvars == <<tree, source_ok, opts, cpc, cfiles, ci, content, files_processed,
           total_lines, outfile, opened, console, result>>

\* the state of rename_files
VARIABLES
  folder_ok,      \* folder.exists() and folder.is_dir()
  files,          \* names of the regular files in the folder
  dirs,           \* names of the other entries (directories) in the folder
  args,           \* the old_ext and new_ext arguments of the command line
  rpc,            \* "idle", "loop" (inside the for loop), "done" (returned)
  dry_run,        \* the dry_run argument of the current call
  listing,        \* sorted(folder.iterdir()), taken once at line 53
  idx,            \* position of the for loop in listing
  renamed_count,  \* line 51
  steps,          \* what each iteration that reached line 83 printed and did
  ret,            \* the value the last call returned
  start,          \* the folder's contents when the current call began
  prev            \* <<record>> of the call that returned before this one

rvars == <<folder_ok, files, dirs, args, rpc, dry_run, listing, idx,
           renamed_count, steps, ret, start, prev>>

\* lines 39-40
old_ext == LStripDots(args.old)
new_ext == LStripDots(args.new)

Existing == files \cup dirs

RInit ==
  /\ args \in ExtArgs
  /\ folder_ok \in BOOLEAN
  /\ \E F \in SUBSET FilePool, D \in SUBSET DirPool :
        /\ F \cap D = {}
        /\ Cardinality(F \cup D) <= MaxEntries
        /\ ~folder_ok => F = {} /\ D = {}
        /\ files = F
        /\ dirs = D
  /\ rpc = "idle"
  /\ dry_run = FALSE
  /\ listing = <<>>
  /\ idx = 1
  /\ renamed_count = 0
  /\ steps = <<>>
  /\ ret = 0
  /\ start = [files |-> {}, dirs |-> {}]
  /\ prev = <<>>
  \* combine_files is not run
  /\ tree = {}
  /\ source_ok = FALSE
  /\ opts = [pattern |-> <<>>, sort_by_date |-> TRUE, recursive |-> FALSE]
  /\ cpc = "start"
  /\ cfiles = <<>>
  /\ ci = 1
  /\ content = <<>>
  /\ files_processed = 0
  /\ total_lines = 0
  /\ outfile = <<>>
  /\ opened = FALSE
  /\ console = <<>>
  /\ result = <<>>

\* what a call leaves for the next one to be compared with
CallRecord ==
  [dry |-> dry_run, start |-> start, steps |-> steps, ret |-> ret]

Remember == IF rpc = "done" THEN <<CallRecord>> ELSE <<>>

\* The script is run on the folder, and run again after a dry run (a preview
\* and then the renaming, or another preview); nothing else touches the folder.
MayCall == rpc = "idle" \/ (rpc = "done" /\ dry_run)

\* lines 30-37: the folder is missing or not a directory
CallInvalid(dry) ==
  /\ UNCHANGED cvars
  /\ MayCall
  /\ ~folder_ok
  /\ prev' = Remember
  /\ dry_run' = dry
  /\ start' = [files |-> files, dirs |-> dirs]
  /\ listing' = <<>>
  /\ idx' = 1
  /\ renamed_count' = 0
  /\ steps' = <<>>
  /\ ret' = 0
  /\ rpc' = "done"
  /\ UNCHANGED <<folder_ok, files, dirs, args>>

\* lines 30-53: up to the evaluation of sorted(folder.iterdir())
Call(dry) ==
  /\ UNCHANGED cvars
  /\ MayCall
  /\ folder_ok
  /\ prev' = Remember
  /\ dry_run' = dry
  /\ start' = [files |-> files, dirs |-> dirs]
  /\ listing' = SortedNames(Existing)
  /\ idx' = 1
  /\ renamed_count' = 0
  /\ steps' = <<>>
  /\ rpc' = "loop"
  /\ UNCHANGED <<folder_ok, files, dirs, args, ret>>

InLoop == rpc = "loop" /\ idx <= Len(listing)

file_path == listing[idx]

\* lines 54-55
SkipNotFile ==
  /\ UNCHANGED cvars
  /\ InLoop
  /\ file_path \notin files
  /\ idx' = idx + 1
  /\ UNCHANGED <<folder_ok, files, dirs, args, rpc, dry_run, listing,
                 renamed_count, steps, ret, start, prev>>

\* lines 57-59
SkipNoMatch ==
  /\ UNCHANGED cvars
  /\ InLoop
  /\ file_path \in files
  /\ ~PatternMatches(file_path, old_ext)
  /\ idx' = idx + 1
  /\ UNCHANGED <<folder_ok, files, dirs, args, rpc, dry_run, listing,
                 renamed_count, steps, ret, start, prev>>

Matched == InLoop /\ file_path \in files /\ PatternMatches(file_path, old_ext)

\* lines 61-66
new_name ==
  NewName(Group1(file_path, old_ext), Group2(file_path, old_ext), new_ext)

\* lines 68-80
target == ResolveTarget(new_name, Existing)

Step(outcome) ==
  [src |-> file_path, new_name |-> new_name, existed |-> new_name \in Existing,
   target |-> target, seen |-> Existing, result |-> outcome]

DryRunStepRenames ==
  /\ UNCHANGED cvars
  /\ Matched
  /\ dry_run
  /\ files' = (files \ {file_path}) \cup {target}
  /\ renamed_count' = renamed_count + 1
  /\ steps' = Append(steps, Step("dry"))
  /\ idx' = idx + 1
  /\ UNCHANGED <<folder_ok, dirs, args, rpc, dry_run, listing, ret, start, prev>>

\* lines 82-83, 91-92
DryRunStep ==
  /\ UNCHANGED cvars
  /\ Matched
  /\ dry_run
  /\ renamed_count' = renamed_count + 1
  /\ steps' = Append(steps, Step("dry"))
  /\ idx' = idx + 1
  /\ UNCHANGED <<folder_ok, files, dirs, args, rpc, dry_run, listing, ret, start,
                 prev>>

\* lines 82-88: os.rename succeeds (it replaces an existing file, and
\* raises when the target is a directory)
RenameOk ==
  /\ UNCHANGED cvars
  /\ Matched
  /\ ~dry_run
  /\ target \notin dirs
  /\ files' = (files \ {file_path}) \cup {target}
  /\ renamed_count' = renamed_count + 1
  /\ steps' = Append(steps, Step("renamed"))
  /\ idx' = idx + 1
  /\ UNCHANGED <<folder_ok, dirs, args, rpc, dry_run, listing, ret, start, prev>>

Errors == Cardinality({k \in 1..Len(steps) : steps[k].result = "error"})

RenameErrorCounted ==
  /\ UNCHANGED cvars
  /\ Matched
  /\ ~dry_run
  /\ Errors < MaxRenameErrors
  /\ renamed_count' = renamed_count + 1
  /\ steps' = Append(steps, Step("error"))
  /\ idx' = idx + 1
  /\ UNCHANGED <<folder_ok, files, dirs, args, rpc, dry_run, listing, ret, start,
                 prev>>

\* lines 86-90: file_path.rename raises, the handler prints and goes on
RenameError ==
  /\ UNCHANGED cvars
  /\ Matched
  /\ ~dry_run
  /\ Errors < MaxRenameErrors
  /\ steps' = Append(steps, Step("error"))
  /\ idx' = idx + 1
  /\ UNCHANGED <<folder_ok, files, dirs, args, rpc, dry_run, listing,
                 renamed_count, ret, start, prev>>

\* line 94
Return ==
  /\ UNCHANGED cvars
  /\ rpc = "loop"
  /\ idx > Len(listing)
  /\ ret' = renamed_count
  /\ rpc' = "done"
  /\ UNCHANGED <<folder_ok, files, dirs, args, dry_run, listing, idx,
                 renamed_count, steps, start, prev>>

RNext ==
  \/ \E dry \in BOOLEAN : CallInvalid(dry)
  \/ \E dry \in BOOLEAN : Call(dry)
  \/ SkipNotFile
  \/ SkipNoMatch
  \/ DryRunStep
  \/ RenameOk
  \/ RenameError
  \/ Return

(***************************************************************************)
(* Properties of rename_files.                                             *)
(***************************************************************************)
SameExt(e, old) ==
  Len(e) = Len(old) /\ \A k \in 1..Len(old) : Lower(e[k]) = Lower(old[k])

\* name = base . e rest, with a non-empty base of i characters, e the old
\* extension in any case, and rest empty, <digits> or .<digits>
Decomposes(name, old, i) ==
  /\ i + 1 + Len(old) <= Len(name)
  /\ name[i + 1] = "."
  /\ SameExt(SubSeq(name, i + 2, i + 1 + Len(old)), old)
  /\ LET rest == SubSeq(name, i + 2 + Len(old), Len(name))
     IN  \/ rest = <<>>
         \/ AllDigits(rest)
         \/ rest # <<>> /\ rest[1] = "." /\ AllDigits(Tail(rest))

\* the names the contract allows for a file called name
ContractTargets(name, old, new) ==
  { LET base == SubSeq(name, 1, i)
        rest == SubSeq(name, i + 2 + Len(old), Len(name))
        digits == IF rest # <<>> /\ rest[1] = "." THEN Tail(rest) ELSE rest
    IN  IF digits = <<>> THEN base \o <<".">> \o new
        ELSE base \o <<".">> \o digits \o <<".">> \o new
    : i \in {j \in 1..Len(name) : Decomposes(name, old, j)} }

ContractMatches(name) == ContractTargets(name, old_ext, new_ext) # {}

StepOf(name) == {k \in 1..Len(steps) : steps[k].src = name}

Acted(k) == steps[k].result = "renamed"

\* C1: a matching regular file whose computed target does not exist is
\* renamed to <base>.<new> or <base>.<digits>.<new>; in a call where no
\* rename fails every matching file of the folder is processed; files that
\* do not match and directories keep their names.
C1_RenamesByPattern ==
  /\ \A k \in 1..Len(steps) :
        (Acted(k) /\ ~steps[k].existed) =>
           /\ steps[k].src \in start.files
           /\ steps[k].target \in
                 ContractTargets(steps[k].src, old_ext, new_ext)
  /\ (steps # <<>> /\ Acted(Len(steps)) /\ ~steps[Len(steps)].existed) =>
        /\ steps[Len(steps)].target \in files
        /\ steps[Len(steps)].src \notin files
  /\ (rpc = "done" /\ folder_ok /\ Errors = 0) =>
        \A n \in start.files : ContractMatches(n) => StepOf(n) # {}
  /\ rpc \in {"loop", "done"} =>
        /\ dirs = start.dirs
        /\ \A n \in start.files :
              ~ContractMatches(n) => n \in files /\ StepOf(n) = {}
        /\ \A n \in start.dirs : StepOf(n) = {}

C1_Witness ==
  /\ rpc = "done"
  /\ ~dry_run
  /\ \E k \in 1..Len(steps) :
        /\ Acted(k) /\ ~steps[k].existed
        /\ steps[k].src = <<"r", ".", "l", "g", "2">>
        /\ steps[k].target = <<"r", ".", "2", ".", "t", "x">>
  /\ \E k \in 1..Len(steps) :
        /\ Acted(k) /\ ~steps[k].existed
        /\ steps[k].src = <<"r", ".", "L", "G">>
  /\ \E n \in files : ~ContractMatches(n)

\* the n of a collision-resolved name <stem>_<n><suffix>, 0 when it is none
SuffixNumberOf(k) ==
  LET st == Stem(steps[k].new_name)
      sf == Suffix(steps[k].new_name)
      ns == {n \in 1..(Cardinality(steps[k].seen) + 1) :
               steps[k].target = st \o <<"_">> \o IntToStr(n) \o sf}
  IN  IF ns = {} THEN 0 ELSE CHOOSE n \in ns : TRUE

\* the collision rule: an existing target gives <stem>_<n><suffix> with the
\* smallest n >= 1 whose name is free at that moment
SmallestFreeSuffix(k) ==
  steps[k].existed =>
     LET st == Stem(steps[k].new_name)
         sf == Suffix(steps[k].new_name)
         n  == SuffixNumberOf(k)
     IN  /\ n >= 1
         /\ steps[k].target \notin steps[k].seen
         /\ \A m \in 1..(n - 1) :
               (st \o <<"_">> \o IntToStr(m) \o sf) \in steps[k].seen

ProcessedInSortedOrder ==
  /\ \A i \in 1..(Len(listing) - 1) : StrLess(listing[i], listing[i + 1])
  /\ \A i, j \in 1..Len(steps) :
        i < j => StrLess(steps[i].src, steps[j].src)

SameTargetPairs ==
  {p \in (1..Len(steps)) \X (1..Len(steps)) :
      /\ p[1] < p[2]
      /\ Acted(p[1]) /\ Acted(p[2])
      /\ steps[p[1]].new_name = steps[p[2]].new_name}

C3_DryRunNoMutation ==
  (rpc \in {"loop", "done"} /\ dry_run) =>
     /\ files = start.files
     /\ dirs = start.dirs
     /\ rpc = "done" =>
           ret = Cardinality({n \in start.files : ContractMatches(n)})

C3_Witness ==
  /\ rpc = "done"
  /\ dry_run
  /\ ret >= 2
  /\ \E k \in 1..Len(steps) : steps[k].existed

Report(ss) == [k \in 1..Len(ss) |-> <<ss[k].src, ss[k].target>>]

\* C4: a dry run reports, for every matched file, the final name that a
\* real run without failures gives it from the same folder contents, and
\* returns the same count.
C4_DryRunSameAsReal ==
  (/\ rpc = "done" /\ ~dry_run /\ Errors = 0
   /\ prev # <<>> /\ prev[1].dry /\ prev[1].start = start) =>
     /\ Report(prev[1].steps) = Report(steps)
     /\ prev[1].ret = ret

\* C9: a rename that raises leaves the file under its name and uncounted,
\* the files after it are still processed, and the count returned is the
\* number of renames that succeeded.
C9_RenameErrorSkipsFile ==
  (rpc \in {"loop", "done"} /\ ~dry_run) =>
     /\ \A k \in 1..Len(steps) :
           steps[k].result = "error" => steps[k].src \in files
     /\ renamed_count = Cardinality({k \in 1..Len(steps) : Acted(k)})
     /\ rpc = "done" =>
           /\ ret = Cardinality({k \in 1..Len(steps) : Acted(k)})
           /\ \A n \in start.files : ContractMatches(n) => StepOf(n) # {}

C9_Witness ==
  /\ rpc = "done"
  /\ ~dry_run
  /\ Len(steps) >= 2
  /\ steps[1].result = "error"
  /\ Acted(2)
  /\ ret = 1

\* C10: a call never overwrites or removes a file: the folder keeps its
\* number of files and its directories, no rename targets an existing name,
\* and no file is renamed twice.
C10_NeverOverwrites ==
  rpc \in {"loop", "done"} =>
     /\ Cardinality(files) = Cardinality(start.files)
     /\ dirs = start.dirs
     /\ \A k \in 1..Len(steps) : steps[k].target \notin steps[k].seen
     /\ \A i, j \in 1..Len(steps) :
           (i < j /\ Acted(i)) =>
              /\ steps[j].src # steps[i].src
              /\ steps[j].src # steps[i].target

C10_Witness ==
  /\ rpc = "done"
  /\ ~dry_run
  /\ new_ext = <<"l", "g", "2">>
  /\ Cardinality({k \in 1..Len(steps) : Acted(k)}) >= 2
  /\ \E k \in 1..Len(steps) : Acted(k) /\ PatternMatches(steps[k].target, old_ext)
  /\ \E k \in 1..Len(steps) : Acted(k) /\ steps[k].existed

(***************************************************************************)
(* combine_files: paths, the directory tree and the inputs.                *)
(* A path is the sequence of its components below source_path.             *)
(***************************************************************************)
NameA   == <<"a">>
NameAT  == <<"a", ".", "t">>
NameBT  == <<"b", ".", "t">>
NameZT  == <<"z", ".", "t">>
NameZ   == <<"z">>
NameOT  == <<"o", ".", "t">>

\* regular files the tree below the source directory may hold
SourcePool ==
  { <<NameAT>>, <<NameBT>>, <<NameZ>>, <<NameA, NameZT>>, <<NameOT>> }

\* output_path, when it lies in the source directory
OutputPath == <<NameOT>>

\* a file's text, "n" standing for the newline character
ContentOf(path) ==
  CASE path = <<NameAT>>        -> <<"x", "n">>
    [] path = <<NameBT>>        -> <<"x", "n", "x">>
    [] path = <<NameZ>>         -> <<>>
    [] path = <<NameA, NameZT>> -> <<"n", "n">>
    [] OTHER                    -> <<"x">>

\* st_ctime
CTimeOf(path) ==
  CASE path = <<NameAT>>        -> 1
    [] path = <<NameBT>>        -> 2
    [] path = <<NameZ>>         -> 2
    [] path = <<NameA, NameZT>> -> 1
    [] OTHER                    -> 3

\* file_pattern values tried: "*" and "*.t", as the suffix after the star
Patterns == { <<>>, <<".", "t">> }

\* fnmatch of "*<suffix>" against one name
GlobMatches(name, suffix) ==
  /\ Len(suffix) <= Len(name)
  /\ SubSeq(name, Len(name) - Len(suffix) + 1, Len(name)) = suffix

PathName(path) == path[Len(path)]

\* PurePath.__lt__: the parts compared as a list of strings
PathLess(p, q) ==
  \E k \in 1..Len(q) :
     /\ \A j \in 1..(k - 1) : j <= Len(p) /\ p[j] = q[j]
     /\ k - 1 <= Len(p)
     /\ \/ k = Len(p) + 1
        \/ k <= Len(p) /\ StrLess(p[k], q[k])

\* list.sort() of paths
RECURSIVE SortedPaths(_)
SortedPaths(S) ==
  IF S = {} THEN <<>>
  ELSE LET m == CHOOSE x \in S : \A y \in S : x = y \/ PathLess(x, y)
       IN  <<m>> \o SortedPaths(S \ {m})

\* content.count('\n')
RECURSIVE CountNewlines(_)
CountNewlines(text) ==
  IF text = <<>> THEN 0
  ELSE (IF Head(text) = "n" THEN 1 ELSE 0) + CountNewlines(Tail(text))

\* directories below the source directory: the parents of the files
TreeDirs == UNION {{SubSeq(p, 1, k) : k \in 1..(Len(p) - 1)} : p \in tree}

\* lines 40-43: rglob or glob
Globbed(pattern, recursive) ==
  {p \in tree \cup TreeDirs :
      /\ GlobMatches(PathName(p), pattern)
      /\ recursive \/ Len(p) = 1}

\* line 46: regular files other than the output file
Selected(paths) == {p \in paths : p \in tree /\ p # OutputPath}

\* orders a list.sort(key=st_ctime) can leave, the glob order being any
SortedByCTime(S) ==
  {f \in [1..Cardinality(S) -> S] :
      /\ \A i, j \in 1..Cardinality(S) : i # j => f[i] # f[j]
      /\ \A i \in 1..(Cardinality(S) - 1) : CTimeOf(f[i]) <= CTimeOf(f[i + 1])}

CInit ==
  /\ tree \in {T \in SUBSET SourcePool : Cardinality(T) <= MaxSourceFiles}
  /\ source_ok \in BOOLEAN
  /\ ~source_ok => tree = {}
  /\ opts \in [pattern : Patterns, sort_by_date : BOOLEAN, recursive : BOOLEAN]
  /\ cpc = "start"
  /\ cfiles = <<>>
  /\ ci = 1
  /\ content = <<>>
  /\ files_processed = 0
  /\ total_lines = 0
  /\ outfile = <<>>
  /\ opened = FALSE
  /\ console = <<>>
  /\ result = <<>>
  \* rename_files is not run
  /\ args = [old |-> <<>>, new |-> <<>>]
  /\ folder_ok = FALSE
  /\ files = {}
  /\ dirs = {}
  /\ rpc = "idle"
  /\ dry_run = FALSE
  /\ listing = <<>>
  /\ idx = 1
  /\ renamed_count = 0
  /\ steps = <<>>
  /\ ret = 0
  /\ start = [files |-> {}, dirs |-> {}]
  /\ prev = <<>>

Faults ==
  Cardinality({k \in 1..Len(console) : console[k].what # "processed"})

MayFail == Faults < MaxFaults

\* lines 31-37
SourceInvalid ==
  /\ UNCHANGED rvars
  /\ cpc = "start"
  /\ ~source_ok
  /\ result' = <<0, 0, FALSE>>
  /\ cpc' = "done"
  /\ UNCHANGED <<tree, source_ok, opts, cfiles, ci, content, files_processed,
                 total_lines, outfile, opened, console>>

\* lines 39-62
ListFiles ==
  /\ UNCHANGED rvars
  /\ cpc = "start"
  /\ source_ok
  /\ LET found == Selected(Globbed(opts.pattern, opts.recursive))
     IN  /\ IF opts.sort_by_date
            THEN cfiles' \in SortedByCTime(found)
            ELSE cfiles' = SortedPaths(found)
         /\ IF found = {}
            THEN cpc' = "done" /\ result' = <<0, 0, FALSE>>
            ELSE cpc' = "open" /\ result' = result
  /\ UNCHANGED <<tree, source_ok, opts, ci, content, files_processed,
                 total_lines, outfile, opened, console>>

\* lines 122-124: the handler of the outer try
Abort(what) ==
  /\ console' = Append(console, [what |-> what, file |-> 0])
  /\ result' = <<files_processed, total_lines, FALSE>>
  /\ cpc' = "done"

\* line 68
OpenOutput ==
  /\ UNCHANGED rvars
  /\ cpc = "open"
  /\ opened' = TRUE
  /\ cpc' = "header"
  /\ UNCHANGED <<tree, source_ok, opts, cfiles, ci, content, files_processed,
                 total_lines, outfile, console, result>>

OpenOutputFails ==
  /\ UNCHANGED rvars
  /\ cpc = "open"
  /\ MayFail
  /\ Abort("open failed")
  /\ UNCHANGED <<tree, source_ok, opts, cfiles, ci, content, files_processed,
                 total_lines, outfile, opened>>

HeaderLines == 6

HeaderWritten == Cardinality({k \in 1..Len(outfile) : outfile[k].kind = "header"})

\* lines 70-75, one write at a time
WriteHeader ==
  /\ UNCHANGED rvars
  /\ cpc = "header"
  /\ outfile' = Append(outfile, [kind |-> "header", line |-> HeaderWritten + 1])
  /\ cpc' = IF HeaderWritten + 1 = HeaderLines THEN "read" ELSE "header"
  /\ UNCHANGED <<tree, source_ok, opts, cfiles, ci, content, files_processed,
                 total_lines, opened, console, result>>

WriteHeaderFails ==
  /\ UNCHANGED rvars
  /\ cpc = "header"
  /\ MayFail
  /\ Abort("header write failed")
  /\ UNCHANGED <<tree, source_ok, opts, cfiles, ci, content, files_processed,
                 total_lines, outfile, opened>>

cfile == cfiles[ci]

\* the for loop takes the next file, or ends
NextFile ==
  /\ ci' = ci + 1
  /\ content' = <<>>
  /\ cpc' = IF ci + 1 > Len(cfiles) THEN "footer" ELSE "read"

\* lines 80-86
ReadFile ==
  /\ UNCHANGED rvars
  /\ cpc = "read"
  /\ content' = ContentOf(cfile)
  /\ cpc' = "separator"
  /\ UNCHANGED <<tree, source_ok, opts, cfiles, ci, files_processed,
                 total_lines, outfile, opened, console, result>>

SkipFileCounted(what) ==
  /\ console' = Append(console, [what |-> what, file |-> ci])
  /\ NextFile
  /\ files_processed' = files_processed + 1
  /\ UNCHANGED <<tree, source_ok, opts, cfiles, total_lines,
                 outfile, opened, result>>

\* lines 110-113: a handler of the inner try prints and the loop goes on
SkipFile(what) ==
  /\ console' = Append(console, [what |-> what, file |-> ci])
  /\ NextFile
  /\ UNCHANGED <<tree, source_ok, opts, cfiles, files_processed, total_lines,
                 outfile, opened, result>>

\* lines 80-86 raise: open, read, decode or stat of the input file
ReadFileFails ==
  /\ UNCHANGED rvars
  /\ cpc = "read"
  /\ MayFail
  /\ \E what \in {"decode error", "read error"} : SkipFile(what)

\* lines 89-96
WriteSeparator ==
  /\ UNCHANGED rvars
  /\ cpc = "separator"
  /\ outfile' = Append(outfile,
        [kind |-> "separator", name |-> PathName(cfile), path |-> cfile,
         lines |-> CountNewlines(content), ctime |-> CTimeOf(cfile)])
  /\ cpc' = "content"
  /\ UNCHANGED <<tree, source_ok, opts, cfiles, ci, content, files_processed,
                 total_lines, opened, console, result>>

\* line 96 raises inside the inner try
WriteSeparatorFails ==
  /\ UNCHANGED rvars
  /\ cpc = "separator"
  /\ MayFail
  /\ SkipFile("separator write failed")

NeedsNewline == content # <<>> /\ content[Len(content)] # "n"

\* lines 105-108
CountFile ==
  /\ files_processed' = files_processed + 1
  /\ total_lines' = total_lines + CountNewlines(content)
  /\ console' = Append(console, [what |-> "processed", file |-> ci])
  /\ NextFile

\* line 99, and lines 105-108 when no newline is to be added
WriteContent ==
  /\ UNCHANGED rvars
  /\ cpc = "content"
  /\ outfile' = Append(outfile, [kind |-> "content", text |-> content])
  /\ IF NeedsNewline
     THEN /\ cpc' = "newline"
          /\ UNCHANGED <<ci, content, files_processed, total_lines, console>>
     ELSE CountFile
  /\ UNCHANGED <<tree, source_ok, opts, cfiles, opened, result>>

WriteContentFails ==
  /\ UNCHANGED rvars
  /\ cpc = "content"
  /\ MayFail
  /\ SkipFile("content write failed")

\* lines 102-108
WriteNewline ==
  /\ UNCHANGED rvars
  /\ cpc = "newline"
  /\ outfile' = Append(outfile, [kind |-> "content", text |-> <<"n">>])
  /\ CountFile
  /\ UNCHANGED <<tree, source_ok, opts, cfiles, opened, result>>

WriteNewlineFails ==
  /\ UNCHANGED rvars
  /\ cpc = "newline"
  /\ MayFail
  /\ SkipFile("content write failed")

FooterLines == 5

FooterWritten == Cardinality({k \in 1..Len(outfile) : outfile[k].kind = "footer"})

FooterValueTotalFiles(line) ==
  CASE line = 3 -> Len(cfiles)
    [] line = 4 -> total_lines
    [] OTHER -> 0

\* the number a footer line shows: lines 118 and 119
FooterValue(line) ==
  CASE line = 3 -> files_processed
    [] line = 4 -> total_lines
    [] OTHER -> 0

\* lines 116-120, one write at a time
WriteFooter ==
  /\ UNCHANGED rvars
  /\ cpc = "footer"
  /\ outfile' = Append(outfile,
        [kind |-> "footer", line |-> FooterWritten + 1,
         value |-> FooterValue(FooterWritten + 1)])
  /\ cpc' = IF FooterWritten + 1 = FooterLines THEN "close" ELSE "footer"
  /\ UNCHANGED <<tree, source_ok, opts, cfiles, ci, content, files_processed,
                 total_lines, opened, console, result>>

WriteFooterFails ==
  /\ UNCHANGED rvars
  /\ cpc = "footer"
  /\ MayFail
  /\ Abort("footer write failed")
  /\ UNCHANGED <<tree, source_ok, opts, cfiles, ci, content, files_processed,
                 total_lines, outfile, opened>>

\* the with block is left and line 126 returns
CloseAndReturn ==
  /\ UNCHANGED rvars
  /\ cpc = "close"
  /\ result' = <<files_processed, total_lines, TRUE>>
  /\ cpc' = "done"
  /\ UNCHANGED <<tree, source_ok, opts, cfiles, ci, content, files_processed,
                 total_lines, outfile, opened, console>>

\* the flush on leaving the with block raises
CloseFails ==
  /\ UNCHANGED rvars
  /\ cpc = "close"
  /\ MayFail
  /\ Abort("close failed")
  /\ UNCHANGED <<tree, source_ok, opts, cfiles, ci, content, files_processed,
                 total_lines, outfile, opened>>

CNext ==
  \/ SourceInvalid
  \/ ListFiles
  \/ OpenOutput
  \/ OpenOutputFails
  \/ WriteHeader
  \/ WriteHeaderFails
  \/ ReadFile
  \/ ReadFileFails
  \/ WriteSeparator
  \/ WriteSeparatorFails
  \/ WriteContent
  \/ WriteContentFails
  \/ WriteNewline
  \/ WriteNewlineFails
  \/ WriteFooter
  \/ WriteFooterFails
  \/ CloseAndReturn
  \/ CloseFails

(***************************************************************************)
(* The two scripts share nothing: each specification runs one of them and  *)
(* leaves the other's state as it is.                                      *)
(***************************************************************************)
vars == <<rvars, cvars>>

SpecRename == RInit /\ [][RNext]_vars

SpecCombine == CInit /\ [][CNext]_vars

(***************************************************************************)
(* Properties of combine_files.                                            *)
(***************************************************************************)
\* N: the regular files, other than the output file, that match the pattern
MatchingFiles ==
  {p \in tree :
      /\ p # OutputPath
      /\ GlobMatches(p[Len(p)], opts.pattern)
      /\ opts.recursive \/ Len(p) = 1}

RaisedFiles ==
  {console[k].file : k \in {j \in 1..Len(console) :
      console[j].what # "processed" /\ console[j].file > 0}}

ProcessedFiles ==
  {console[k].file : k \in {j \in 1..Len(console) :
      console[j].what = "processed"}}

RECURSIVE SumLines(_)
SumLines(S) ==
  IF S = {} THEN 0
  ELSE LET k == CHOOSE x \in S : TRUE
       IN  CountNewlines(ContentOf(cfiles[k])) + SumLines(S \ {k})

Returned == cpc = "done" /\ source_ok

\* C5 as stated: in every run the count returned is N minus the files that
\* raised, and the lines returned are those of the processed files.
C5_CountsAlways ==
  Returned =>
     /\ result[1] = Cardinality(MatchingFiles) - Cardinality(RaisedFiles)
     /\ result[2] = SumLines(ProcessedFiles)

\* C5, amended: once the output file is open and its header written, the
\* count returned is N minus the number of files whose processing raised and
\* the lines returned are the newlines of exactly the processed files; when
\* the open or the header fails, both are 0.
C5_CountsAfterHeader ==
  Returned =>
     /\ HeaderWritten = HeaderLines =>
           /\ result[1] = Cardinality(MatchingFiles) - Cardinality(RaisedFiles)
           /\ Cardinality(ProcessedFiles) = result[1]
     /\ HeaderWritten < HeaderLines => result[1] = 0
     /\ result[2] = SumLines(ProcessedFiles)
     /\ ProcessedFiles \cap RaisedFiles = {}

C5_Witness ==
  /\ Returned
  /\ Cardinality(MatchingFiles) = 3
  /\ Cardinality(RaisedFiles) = 1
  /\ result[1] = 2
  /\ result[2] >= 2

\* the output ends with the five footer lines, showing the given totals
EndsWithFooter(fp, tl) ==
  /\ Len(outfile) >= FooterLines
  /\ \A k \in 1..FooterLines :
        LET chunk == outfile[Len(outfile) - FooterLines + k]
        IN  /\ chunk.kind = "footer"
            /\ chunk.line = k
            /\ k = 3 => chunk.value = fp
            /\ k = 4 => chunk.value = tl

\* C6 as stated: every output file written ends with the footer.
C6_FooterAlways ==
  (cpc = "done" /\ opened) => EndsWithFooter(result[1], result[2])

\* C6, amended: the output file of a run that returns success ends with a
\* footer whose totals are the ones returned.
C6_FooterOnSuccess ==
  (cpc = "done" /\ result[3]) => EndsWithFooter(result[1], result[2])

C6_Witness ==
  /\ cpc = "done"
  /\ result[3]
  /\ result[1] >= 1
  /\ result[1] < Len(cfiles)
  /\ result[2] >= 1

SeparatorNames ==
  LET ks == {k \in 1..Len(outfile) : outfile[k].kind = "separator"}
  IN  {<<outfile[q[1]].name, outfile[q[2]].name>> :
         q \in {r \in ks \X ks : r[1] < r[2]}}

\* C7: sorted by name, the FILE blocks are in lexicographic order of the
\* file names, recursive or not.
C7_NameOrder ==
  ~opts.sort_by_date =>
     \A pair \in SeparatorNames :
        pair[1] = pair[2] \/ StrLess(pair[1], pair[2])

OutputFailures ==
  {"open failed", "header write failed", "separator write failed",
   "content write failed", "footer write failed", "close failed"}

\* C8: a failure opening or writing the output file, wherever it happens,
\* ends the run: it is the last thing done, and the partial counts are
\* returned with success False.
C8_OutputFailureAborts ==
  \A k \in 1..Len(console) :
     console[k].what \in OutputFailures =>
        /\ k = Len(console)
        /\ cpc = "done"
        /\ result = <<files_processed, total_lines, FALSE>>

====
